---- MODULE Spec2Model ----
(***************************************************************************)
(* A model of web_tool/Datasets.py: the shape loader                       *)
(* (load_geojson_as_list), the client-config serializer                    *)
(* (get_javascript_string_from_dataset) and the module-level loop that     *)
(* builds the DATASETS registry from DATASET_DEFINITIONS.                  *)
(*                                                                         *)
(* Python values are tagged records: [t |-> "none"], [t |-> "bool", v],    *)
(* [t |-> "num", v], [t |-> "str", v], [t |-> "list", v].  A Python string *)
(* is a sequence of lexemes (TLA+ strings).  No lexeme holds "True" or     *)
(* "None" as a proper substring, so str.replace acts lexeme by lexeme.     *)
(***************************************************************************)
EXTENDS Integers, Sequences, FiniteSets, TLC

VARIABLES
    DATASET_DEFINITIONS, \* the declaration table (shape layers are enriched in place)
    order,               \* iteration order of DATASET_DEFINITIONS.items()
    pos,                 \* number of loop iterations started and ended
    DATASETS,            \* the registry
    stdout,              \* the printed warnings, in order
    error,               \* the exception that ended the module's execution, or NoError
    geo_file,            \* input of a stand-alone load_geojson_as_list call
    geo_layer,           \* shape layer enriched with that call's result
    geo_result,          \* its outcome
    js_dataset,          \* input of a stand-alone get_javascript_string_from_dataset call
    js_string            \* its outcome

vars == <<DATASET_DEFINITIONS, order, pos, DATASETS, stdout, error,
          geo_file, geo_layer, geo_result, js_dataset, js_string>>
buildVars == <<DATASET_DEFINITIONS, order, pos, DATASETS, stdout, error>>
geoVars == <<geo_file, geo_layer, geo_result>>
jsVars == <<js_dataset, js_string>>

----------------------------------------------------------------------------
(* Bounds *)

MaxLayers == 2      \* shape layers per declaration
MaxFeatures == 2    \* features per boundary file (stand-alone loader calls)
MaxArgs == 2        \* entries of a tile layer's args map (stand-alone serializer calls)

----------------------------------------------------------------------------
(* Python values *)

PyNone == [t |-> "none"]
PyBool(b) == [t |-> "bool", v |-> b]
PyNum(r) == [t |-> "num", v |-> r]
PyStr(w) == [t |-> "str", v |-> w]
PyList(s) == [t |-> "list", v |-> s]

RECURSIVE Join(_, _)
Join(parts, sep) ==
    IF parts = <<>> THEN <<>>
    ELSE IF Len(parts) = 1 THEN parts[1]
    ELSE parts[1] \o sep \o Join(Tail(parts), sep)

\* repr() of a scalar value
repr(x) ==
    CASE x.t = "none" -> <<"None">>
      [] x.t = "bool" -> IF x.v THEN <<"True">> ELSE <<"False">>
      [] x.t = "num" -> <<x.v>>
      [] x.t = "str" -> <<"'">> \o x.v \o <<"'">>

\* str() of a dict given as a sequence of <<key, value>> pairs, keys being strings
str_dict(d) ==
    <<"{">> \o Join([i \in 1..Len(d) |-> <<"'">> \o d[i][1] \o <<"'", ": ">> \o repr(d[i][2])], <<", ">>)
            \o <<"}">>

\* str() of a list of dicts
str_list_of_dicts(l) ==
    <<"[">> \o Join([i \in 1..Len(l) |-> str_dict(l[i])], <<", ">>) \o <<"]">>

\* str.replace(old, new)
replace(s, old, new) == [i \in 1..Len(s) |-> IF s[i] = old THEN new ELSE s[i]]

----------------------------------------------------------------------------
(* DatasetTypes and the files under ROOT_DIR *)

CUSTOM == "DatasetTypes.CUSTOM"
USA_LAYER == "DatasetTypes.USA_LAYER"
BASEMAP == "DatasetTypes.BASEMAP"
DatasetTypes == {CUSTOM, USA_LAYER, BASEMAP}
\* a data_layer_type that is no member of the enum
OtherKind == "unrecognized"

ROOT_DIR == <<"/root">>

\* os.path.join(ROOT_DIR, fn) for a relative fn
path_join(root, fn) == root \o <<"/">> \o fn

GeomTypes == {"Polygon", "MultiPolygon", "Point", "LineString"}
AreasM2 == {1000000, 3000000}
\* A feature's geometry; area_m2 stands for its coordinates: the area shapely
\* computes for it once projected to the UTM zone of its first vertex.
Geometries == [type : GeomTypes, area_m2 : AreasM2]

OkShapes == <<"shapes/ok.geojson">>
BadShapes == <<"shapes/bad.geojson">>
MissingShapes == <<"shapes/missing.geojson">>
OkRaster == <<"tiles/ok.tif">>
MissingRaster == <<"tiles/missing.tif">>

\* The files present under ROOT_DIR, with the contents of the boundary files.
FileSystem ==
    (path_join(ROOT_DIR, OkShapes) :>
        [crs |-> [init |-> "epsg:4326"],
         rows |-> << [type |-> "Polygon", area_m2 |-> 1000000],
                     [type |-> "MultiPolygon", area_m2 |-> 3000000] >>])
    @@ (path_join(ROOT_DIR, BadShapes) :>
        [crs |-> [init |-> "epsg:4326"],
         rows |-> << [type |-> "Polygon", area_m2 |-> 3000000],
                     [type |-> "Point", area_m2 |-> 1000000] >>])
    @@ (path_join(ROOT_DIR, OkRaster) :> [crs |-> [init |-> "epsg:4326"], rows |-> <<>>])

\* os.path.exists(fn)
path_exists(fn) == fn \in DOMAIN FileSystem

----------------------------------------------------------------------------
(* load_geojson_as_list *)

SquareMetersPerSquareKm == 1000000

\* shapely.geometry.shape(geom): the geometry object, in the source CRS
shape(geom) == geom

\* area of the projected geometry in square kilometres
area_km2(geom) == geom.area_m2 \div SquareMetersPerSquareKm

NoRows == [raised |-> FALSE, shapes |-> <<>>, areas |-> <<>>]

\* A loop body that appends the area of Polygons only.
LoadRowAreaOfPolygonsOnly(acc, geom) ==
    IF geom.type = "Polygon"
    THEN [acc EXCEPT !.areas = Append(@, area_km2(geom)), !.shapes = Append(@, shape(geom))]
    ELSE IF geom.type = "MultiPolygon"
    THEN [acc EXCEPT !.shapes = Append(@, shape(geom))]
    ELSE [raised |-> TRUE, shapes |-> <<>>, areas |-> <<>>]

\* The body of "for row in f": the geometry's type is tested, then its area and
\* its shape are appended; any other type raises ValueError and the locals are lost.
LoadRow(acc, geom) ==
    IF geom.type = "Polygon" \/ geom.type = "MultiPolygon"
    THEN [acc EXCEPT !.areas = Append(@, area_km2(geom)), !.shapes = Append(@, shape(geom))]
    ELSE [raised |-> TRUE, shapes |-> <<>>, areas |-> <<>>]

RECURSIVE LoadRows(_, _, _)
LoadRows(rows, i, acc) ==
    IF acc.raised \/ i > Len(rows) THEN acc
    ELSE LoadRows(rows, i + 1, LoadRow(acc, rows[i]))

\* load_geojson_as_list on an opened file f: (shapes, areas, src_crs), or raised
LoadFile(f) ==
    LET r == LoadRows(f.rows, 1, NoRows)
    IN  [raised |-> r.raised, shapes |-> r.shapes, areas |-> r.areas,
         crs |-> IF r.raised THEN [init |-> ""] ELSE f.crs]

load_geojson_as_list(fn) == LoadFile(FileSystem[fn])

----------------------------------------------------------------------------
(* Shape layer declarations *)

LayerNames == <<<<"States">>, <<"Districts">>, <<"Townships">>, <<"Wards">>>>

ShapeLayer(name, shapes_fn, zone_name_key) ==
    [name |-> name, shapes_fn |-> shapes_fn, zone_name_key |-> zone_name_key,
     enriched |-> FALSE, geoms |-> <<>>, areas |-> <<>>, crs |-> ""]

\* shape_layer["geoms"], ["areas"], ["crs"] = shapes, areas, crs["init"]
Enrich(shape_layer, r) ==
    [shape_layer EXCEPT !.enriched = TRUE, !.geoms = r.shapes, !.areas = r.areas,
                        !.crs = r.crs.init]

----------------------------------------------------------------------------
(* get_javascript_string_from_dataset *)

\* the "kwargs" output: str(args) with True replaced
kwargs_string(dataset) ==
    replace(str_dict(dataset.leafletTileLayer.args), "True", "true")

\* the {"name", "shapes_fn", "zone_name_key"} dict built from a shape layer
shape_triple(shape_layer) ==
    << <<<<"name">>, PyStr(shape_layer.name)>>,
       <<<<"shapes_fn">>, PyStr(shape_layer.shapes_fn)>>,
       <<<<"zone_name_key">>, shape_layer.zone_name_key>> >>

\* the "shapes" output: "null" when shape_layers is None, else str() of the
\* list of triples with None replaced
shapes_string(dataset) ==
    IF dataset.shape_layers.t # "none"
    THEN replace(str_list_of_dicts([i \in 1..Len(dataset.shape_layers.v) |->
                                        shape_triple(dataset.shape_layers.v[i])]),
                 "None", "null")
    ELSE <<"null">>

ShapesMarker == "\"shapes\": "

\* the template with the outputs filled in (layout whitespace left out)
get_javascript_string_from_dataset(dataset) ==
    <<"{", "\"location\": [">>
        \o <<"[">> \o Join([i \in 1..Len(dataset.location.center) |->
                                <<dataset.location.center[i]>>], <<", ">>) \o <<"]">>
        \o <<", ", dataset.location.initialZoom, ", \"">>
        \o dataset.name \o <<"\", \"">> \o dataset.imagery_metadata \o <<"\"], ">>
        \o <<"\"tileObject\": L.tileLayer(\"">> \o dataset.leafletTileLayer.url \o <<"\", ">>
        \o kwargs_string(dataset) \o <<"), ">>
        \o <<ShapesMarker>> \o shapes_string(dataset)
        \o <<"}">>

----------------------------------------------------------------------------
(* The loop over DATASET_DEFINITIONS.items() *)

NoError == "none"
GeometryError == "ValueError: Polygons and MultiPolygons only"
KindError == "ValueError: DatasetType not recognized"

\* the text printed for a missing file: its path and the dataset's key
Warning(fn, dataset_key) == [fn |-> fn, dataset_key |-> dataset_key]

\* A missing boundary file that is reported and leaves "loaded" as it is.
ShapeMissingStillLoaded(s, fn, dataset_key) ==
    [s EXCEPT !.out = Append(@, Warning(fn, dataset_key))]

\* else branch of the shape loop: print the warning, loaded = False
ShapeMissing(s, fn, dataset_key) ==
    [s EXCEPT !.out = Append(@, Warning(fn, dataset_key)), !.loaded = FALSE]

\* then branch of the shape loop, load_geojson_as_list having returned r
ShapeLoaded(s, i, r) ==
    LET shape_layer == Enrich(s.layers[i], r)
    IN  [s EXCEPT !.layers[i] = shape_layer,
                  !.shape_layers = (shape_layer.name :> shape_layer) @@ @]

\* "for shape_layer in dataset['shape_layers']" from the i-th layer on; an
\* exception from load_geojson_as_list ends it with what was done so far
RECURSIVE ShapeLoop(_, _, _)
ShapeLoop(s, i, dataset_key) ==
    IF i > Len(s.layers) THEN s
    ELSE LET fn == path_join(ROOT_DIR, s.layers[i].shapes_fn)
         IN  IF path_exists(fn)
             THEN LET r == load_geojson_as_list(fn)
                  IN  IF r.raised THEN [s EXCEPT !.raised = GeometryError]
                      ELSE ShapeLoop(ShapeLoaded(s, i, r), i + 1, dataset_key)
             ELSE ShapeLoop(ShapeMissing(s, fn, dataset_key), i + 1, dataset_key)

\* A raster check made for CUSTOM datasets only.
CheckDataFnOfCustomOnly(s, dataset, dataset_key) ==
    IF dataset.data_layer_type = CUSTOM
    THEN LET fn == path_join(ROOT_DIR, dataset.data_fn)
         IN  IF ~ path_exists(fn)
             THEN [s EXCEPT !.out = Append(@, Warning(fn, dataset_key)), !.loaded = FALSE]
             ELSE s
    ELSE s

\* "if 'data_fn' in dataset": the raster must exist
CheckDataFn(s, dataset, dataset_key) ==
    IF dataset.has_data_fn
    THEN LET fn == path_join(ROOT_DIR, dataset.data_fn)
         IN  IF ~ path_exists(fn)
             THEN [s EXCEPT !.out = Append(@, Warning(fn, dataset_key)), !.loaded = FALSE]
             ELSE s
    ELSE s

DataLoaderCustom(data_fn, shape_layers, padding) ==
    [class |-> "DataLoaderCustom", data_fn |-> data_fn, shape_layers |-> shape_layers,
     padding |-> padding]
DataLoaderUSALayer(shape_layers, padding) ==
    [class |-> "DataLoaderUSALayer", shape_layers |-> shape_layers, padding |-> padding]
DataLoaderBasemap(data_url, padding) ==
    [class |-> "DataLoaderBasemap", data_url |-> data_url, padding |-> padding]

KindRecognized(dataset) == dataset.data_layer_type \in DatasetTypes

\* the if/elif chain choosing the data loader of a recognized kind
data_loader(dataset, shape_layers) ==
    IF dataset.data_layer_type = CUSTOM
    THEN DataLoaderCustom(dataset.data_fn, shape_layers, dataset.data_padding)
    ELSE IF dataset.data_layer_type = USA_LAYER
    THEN DataLoaderUSALayer(shape_layers, dataset.data_padding)
    ELSE DataLoaderBasemap(dataset.data_url, dataset.data_padding)

\* the layers a declaration lists (none when shape_layers is None)
LayersOf(dataset) == IF dataset.shape_layers.t # "none" THEN dataset.shape_layers.v ELSE <<>>

\* One iteration, up to the test of "loaded": the locals after the shape loop
\* and the data_fn check.  The check is not reached when the shape loop raised.
Validate(dataset, dataset_key) ==
    LET s0 == [layers |-> LayersOf(dataset), shape_layers |-> <<>>, loaded |-> TRUE,
               out |-> <<>>, raised |-> NoError]
        s1 == ShapeLoop(s0, 1, dataset_key)
    IN  IF s1.raised # NoError THEN s1 ELSE CheckDataFn(s1, dataset, dataset_key)

\* the declaration after the iteration: its shape layers as enriched in place
Enriched(dataset, s) ==
    IF dataset.shape_layers.t # "none"
    THEN [dataset EXCEPT !.shape_layers = PyList(s.layers)]
    ELSE dataset

\* the entry stored under DATASETS[dataset_key]
Entry(dataset, s) ==
    [data_loader |-> data_loader(dataset, s.shape_layers),
     shape_layers |-> s.shape_layers,
     javascript_string |-> get_javascript_string_from_dataset(Enriched(dataset, s))]

\* One iteration of the loop on the build state b = [defs, registry, out, error]:
\* an exception leaves the registry as it was, "loaded" false leaves it too
\* (the else: pass), an unrecognized kind raises, and otherwise the entry is stored.
Iterate(b, dataset_key) ==
    LET dataset == b.defs[dataset_key]
        s == Validate(dataset, dataset_key)
        after == [b EXCEPT !.defs[dataset_key] = Enriched(dataset, s), !.out = @ \o s.out]
    IN  IF s.raised # NoError THEN [after EXCEPT !.error = s.raised]
        ELSE IF ~ s.loaded THEN after
        ELSE IF ~ KindRecognized(dataset) THEN [after EXCEPT !.error = KindError]
        ELSE [after EXCEPT !.registry = (dataset_key :> Entry(dataset, s)) @@ @]

\* the whole loop over the keys in the order ord, from the i-th on
RECURSIVE Build(_, _, _)
Build(b, ord, i) ==
    IF b.error # NoError \/ i > Len(ord) THEN b
    ELSE Build(Iterate(b, ord[i]), ord, i + 1)

----------------------------------------------------------------------------
(* The declaration tables the build is run on *)

Keys == {"k1", "k2"}

ShapeFiles == {OkShapes, BadShapes, MissingShapes}

ZoneNameKeys == <<PyNone, PyStr(<<"DT">>), PyStr(<<"TS">>), PyStr(<<"Ward">>)>>

ShapeLayerLists ==
    UNION {{[i \in 1..n |-> ShapeLayer(LayerNames[i], f[i], ZoneNameKeys[i])] :
                f \in [1..n -> ShapeFiles]} : n \in 0..MaxLayers}

NoPath == <<"">>

\* data_layer_type with the presence and the value of the "data_fn" key; a
\* CUSTOM declaration has the key
Sources ==
    {src \in [data_layer_type : DatasetTypes \cup {OtherKind}, has_data_fn : BOOLEAN,
              data_fn : {OkRaster, MissingRaster, NoPath}] :
        /\ src.has_data_fn <=> src.data_fn # NoPath
        /\ src.data_layer_type = CUSTOM => src.has_data_fn}

DefaultArgs == << <<<<"tms">>, PyBool(TRUE)>>, <<<<"minZoom">>, PyNum("13")>> >>

DeclarationWith(src, layers, args) ==
    [name |-> <<"Yangon, Myanmar">>,
     imagery_metadata |-> <<"Sentinel Imagery">>,
     data_layer_type |-> src.data_layer_type,
     has_data_fn |-> src.has_data_fn,
     data_fn |-> src.data_fn,
     data_url |-> <<"https://server/tile/{z}/{y}/{x}">>,
     data_padding |-> "20",
     leafletTileLayer |-> [url |-> <<"tiles/{z}/{x}/{y}.png">>,
                           args |-> args],
     shape_layers |-> layers,
     location |-> [center |-> <<"16.66", "96.01">>, initialZoom |-> "10"]]

Declaration(src, layers) == DeclarationWith(src, layers, DefaultArgs)

Declarations ==
    {Declaration(src, PyNone) : src \in Sources}
    \cup {Declaration(src, PyList(l)) : src \in Sources, l \in ShapeLayerLists}

Orders == {o \in [1..Cardinality(Keys) -> Keys] : \A i, j \in DOMAIN o : o[i] = o[j] => i = j}

NotCalled == [called |-> FALSE]

GeoIdle ==
    /\ geo_file = [crs |-> [init |-> ""], rows |-> <<>>]
    /\ geo_layer = ShapeLayer(LayerNames[1], OkShapes, PyNone)
    /\ geo_result = NotCalled

JsIdle ==
    /\ js_dataset = Declaration([data_layer_type |-> USA_LAYER, has_data_fn |-> FALSE,
                                  data_fn |-> NoPath], PyNone)
    /\ js_string = <<>>

BuildIdle ==
    /\ DATASET_DEFINITIONS = <<>>
    /\ order = <<>>
    /\ pos = 0
    /\ DATASETS = <<>>
    /\ stdout = <<>>
    /\ error = NoError

Init ==
    /\ DATASET_DEFINITIONS \in [Keys -> Declarations]
    /\ order \in Orders
    /\ pos = 0
    /\ DATASETS = <<>>
    /\ stdout = <<>>
    /\ error = NoError
    /\ GeoIdle
    /\ JsIdle

----------------------------------------------------------------------------
(* The build, one loop iteration per step *)

Running == error = NoError /\ pos < Len(order)
Finished == error = NoError /\ pos = Len(order)
Current == order[pos + 1]
Now == [defs |-> DATASET_DEFINITIONS, registry |-> DATASETS, out |-> stdout, error |-> error]

Advance(b) ==
    /\ DATASET_DEFINITIONS' = b.defs
    /\ DATASETS' = b.registry
    /\ stdout' = b.out
    /\ error' = b.error
    /\ pos' = IF b.error = NoError THEN pos + 1 ELSE pos
    /\ UNCHANGED <<order, geoVars, jsVars>>

\* the iteration stores the dataset's entry
InsertDataset ==
    /\ Running
    /\ LET s == Validate(DATASET_DEFINITIONS[Current], Current)
       IN  s.raised = NoError /\ s.loaded /\ KindRecognized(DATASET_DEFINITIONS[Current])
    /\ Advance(Iterate(Now, Current))

\* the iteration ends in "else: pass"
SkipDataset ==
    /\ Running
    /\ LET s == Validate(DATASET_DEFINITIONS[Current], Current)
       IN  s.raised = NoError /\ ~ s.loaded
    /\ Advance(Iterate(Now, Current))

\* load_geojson_as_list raises and nothing catches it
RaiseGeometryError ==
    /\ Running
    /\ Validate(DATASET_DEFINITIONS[Current], Current).raised # NoError
    /\ Advance(Iterate(Now, Current))

\* the loader dispatch falls through to its else
RaiseKindError ==
    /\ Running
    /\ LET s == Validate(DATASET_DEFINITIONS[Current], Current)
       IN  s.raised = NoError /\ s.loaded /\ ~ KindRecognized(DATASET_DEFINITIONS[Current])
    /\ Advance(Iterate(Now, Current))

Next == InsertDataset \/ SkipDataset \/ RaiseGeometryError \/ RaiseKindError

Spec == Init /\ [][Next]_vars

----------------------------------------------------------------------------
(* Stand-alone calls of load_geojson_as_list, and the enrichment of a layer *)

GeoFiles ==
    [crs : {[init |-> "epsg:4326"], [init |-> "epsg:32618"]},
     rows : UNION {[1..n -> Geometries] : n \in 0..MaxFeatures}]

GeoInit ==
    /\ geo_file \in GeoFiles
    /\ geo_layer = ShapeLayer(LayerNames[1], OkShapes, PyNone)
    /\ geo_result = NotCalled
    /\ BuildIdle
    /\ JsIdle

Outcome(r) ==
    [called |-> TRUE, raised |-> r.raised, shapes |-> r.shapes, areas |-> r.areas,
     crs |-> r.crs]

\* the call returns (shapes, areas, src_crs)
GeoReturn ==
    /\ ~ geo_result.called
    /\ ~ LoadFile(geo_file).raised
    /\ geo_result' = Outcome(LoadFile(geo_file))
    /\ UNCHANGED <<geo_file, geo_layer, buildVars, jsVars>>

\* the call raises ValueError
GeoRaise ==
    /\ ~ geo_result.called
    /\ LoadFile(geo_file).raised
    /\ geo_result' = Outcome(LoadFile(geo_file))
    /\ UNCHANGED <<geo_file, geo_layer, buildVars, jsVars>>

\* the caller stores the returned sequences in the shape layer
GeoEnrich ==
    /\ geo_result.called
    /\ ~ geo_result.raised
    /\ ~ geo_layer.enriched
    /\ geo_layer' = Enrich(geo_layer, geo_result)
    /\ UNCHANGED <<geo_file, geo_result, buildVars, jsVars>>

GeoNext == GeoReturn \/ GeoRaise \/ GeoEnrich

SpecGeo == GeoInit /\ [][GeoNext]_vars

----------------------------------------------------------------------------
(* Stand-alone calls of get_javascript_string_from_dataset *)

ArgKeys == <<<<"tms">>, <<"minZoom">>, <<"attribution">>, <<"maxZoom">>>>
ArgValues == {PyBool(TRUE), PyBool(FALSE), PyNone, PyNum("13"), PyStr(<<"Georeferenced Image">>)}
ArgMaps ==
    UNION {{[i \in 1..n |-> <<ArgKeys[i], f[i]>>] : f \in [1..n -> ArgValues]} : n \in 0..MaxArgs}

TripleValues == {PyNone, PyStr(<<"ST">>), PyBool(TRUE)}
JsLayerLists ==
    UNION {{[i \in 1..n |-> ShapeLayer(LayerNames[i], OkShapes, f[i])] :
                f \in [1..n -> TripleValues]} : n \in 0..MaxLayers}

JsSource == [data_layer_type |-> USA_LAYER, has_data_fn |-> FALSE, data_fn |-> NoPath]

JsDatasets ==
    {DeclarationWith(JsSource, PyNone, a) : a \in ArgMaps}
    \cup {DeclarationWith(JsSource, PyList(l), a) : l \in JsLayerLists, a \in ArgMaps}

JsInit ==
    /\ js_dataset \in JsDatasets
    /\ js_string = <<>>
    /\ BuildIdle
    /\ GeoIdle

Serialize ==
    /\ js_string = <<>>
    /\ js_string' = get_javascript_string_from_dataset(js_dataset)
    /\ UNCHANGED <<js_dataset, buildVars, geoVars>>

JsNext == Serialize

SpecJs == JsInit /\ [][JsNext]_vars

----------------------------------------------------------------------------
(* Vocabulary of the properties *)

\* the boundary files a declaration references, as resolved paths, in order
ShapePaths(dataset) ==
    [i \in 1..Len(LayersOf(dataset)) |-> path_join(ROOT_DIR, LayersOf(dataset)[i].shapes_fn)]

\* the files a declaration references: its boundary files, then its raster
ReferencedPaths(dataset) ==
    ShapePaths(dataset)
        \o (IF dataset.has_data_fn THEN <<path_join(ROOT_DIR, dataset.data_fn)>> ELSE <<>>)

ShapeFileMissing(dataset) ==
    \E i \in DOMAIN ShapePaths(dataset) : ~ path_exists(ShapePaths(dataset)[i])

RasterMissing(dataset) ==
    dataset.has_data_fn /\ ~ path_exists(path_join(ROOT_DIR, dataset.data_fn))

HasMissingFile(dataset) == ShapeFileMissing(dataset) \/ RasterMissing(dataset)

\* number of references of the declaration to files that do not exist
MissingCount(dataset) ==
    Cardinality({i \in DOMAIN ReferencedPaths(dataset) : ~ path_exists(ReferencedPaths(dataset)[i])})

\* the warnings printed so far that name the dataset key
WarningsOf(dataset_key) == {i \in DOMAIN stdout : stdout[i].dataset_key = dataset_key}

\* every boundary file of the declaration exists and holds (Multi)Polygons only
ShapeFilesValid(dataset) ==
    \A i \in DOMAIN ShapePaths(dataset) :
        /\ path_exists(ShapePaths(dataset)[i])
        /\ \A j \in DOMAIN FileSystem[ShapePaths(dataset)[i]].rows :
               FileSystem[ShapePaths(dataset)[i]].rows[j].type \in {"Polygon", "MultiPolygon"}

\* the keys whose iteration ran to its end
Completed == {order[i] : i \in 1..pos}
\* the keys whose iteration has ended, by its end or by an exception
Ended == Completed \cup (IF error # NoError THEN {Current} ELSE {})

AllKindsRecognized == \A k \in Keys : KindRecognized(DATASET_DEFINITIONS[k])

\* the table as it was written: no layer enriched yet
Declared(defs) ==
    [k \in DOMAIN defs |->
        IF defs[k].shape_layers.t = "none" THEN defs[k]
        ELSE [defs[k] EXCEPT !.shape_layers =
                PyList([i \in 1..Len(defs[k].shape_layers.v) |->
                    ShapeLayer(defs[k].shape_layers.v[i].name,
                               defs[k].shape_layers.v[i].shapes_fn,
                               defs[k].shape_layers.v[i].zone_name_key)])]]

Reverse(o) == [i \in 1..Len(o) |-> o[Len(o) + 1 - i]]

\* the text that follows the "shapes": marker of a serialized config
ShapesField(js) ==
    LET m == CHOOSE i \in 1..Len(js) : js[i] = ShapesMarker
    IN  SubSeq(js, m + 1, Len(js) - 1)

NativeTokens == {"True", "False", "None"}

----------------------------------------------------------------------------
(* Properties *)

\* C1: once the build has finished, every declaration that references a file
\* that does not exist (a boundary file or its raster) has no entry in DATASETS,
\* and a warning naming its key and one of its missing files was printed.
C1_MissingFileExcludedAndReported ==
    Finished =>
        \A k \in Keys :
            HasMissingFile(DATASET_DEFINITIONS[k]) =>
                /\ k \notin DOMAIN DATASETS
                /\ \E i \in WarningsOf(k) :
                       /\ ~ path_exists(stdout[i].fn)
                       /\ \E j \in DOMAIN ReferencedPaths(DATASET_DEFINITIONS[k]) :
                              ReferencedPaths(DATASET_DEFINITIONS[k])[j] = stdout[i].fn

\* a finished build that excluded and reported a dataset with a missing raster
\* and another with a missing boundary file
C1_Witness ==
    /\ Finished
    /\ \E k \in Keys :
           /\ RasterMissing(DATASET_DEFINITIONS[k])
           /\ ~ ShapeFileMissing(DATASET_DEFINITIONS[k])
           /\ k \notin DOMAIN DATASETS
           /\ Cardinality(WarningsOf(k)) = 1
    /\ \E k \in Keys :
           /\ ShapeFileMissing(DATASET_DEFINITIONS[k])
           /\ k \notin DOMAIN DATASETS
           /\ WarningsOf(k) # {}

\* C2: validation is not fail-fast: for every dataset whose iteration has
\* ended, the number of warnings printed for it equals the number of its
\* referenced files that are missing (every file was checked, one warning each).
C2_OneWarningPerMissingFile ==
    \A k \in Ended :
        Cardinality(WarningsOf(k)) = MissingCount(DATASET_DEFINITIONS[k])

\* C3: a missing file or a boundary file with another geometry type never
\* aborts the build: no ValueError of the shape loader ends it, and when it
\* has finished every dataset whose files are present and valid has its entry.
C3_PerDatasetFailureNeverAborts ==
    /\ error # GeometryError
    /\ Finished =>
           \A k \in Keys :
               (/\ KindRecognized(DATASET_DEFINITIONS[k])
                /\ ~ HasMissingFile(DATASET_DEFINITIONS[k])
                /\ ShapeFilesValid(DATASET_DEFINITIONS[k])) => k \in DOMAIN DATASETS

\* C4: a declaration of an unrecognized source kind always aborts the build:
\* no iteration over such a declaration runs to its end, whether or not its
\* files exist.
C4_UnknownKindAlwaysAborts ==
    \A k \in Completed : KindRecognized(DATASET_DEFINITIONS[k])

\* C5: for a dataset without shape layers (shape_layers None or an empty
\* list) the "shapes" field of the serialized config is the null literal.
C5_NoShapeLayersRendersNull ==
    (/\ js_string # <<>>
     /\ LayersOf(js_dataset) = <<>>) => ShapesField(js_string) = <<"null">>

\* C6: the serialized config holds no native True, False or None: the values
\* of the args map and of the shape-layer triples appear as true, false, null.
C6_OnlyClientLiterals ==
    js_string # <<>> => \A i \in DOMAIN js_string : js_string[i] \notin NativeTokens

\* C7: load_geojson_as_list raises, returning nothing, exactly when a feature
\* is neither Polygon nor MultiPolygon; otherwise it returns one geometry and
\* one area per feature, in file order, areas[i] being the area of shapes[i];
\* and a shape layer enriched with its result has as many geoms as areas.
C7_GeometriesAndAreasParallel ==
    /\ geo_result.called =>
           IF \E i \in DOMAIN geo_file.rows :
                  geo_file.rows[i].type \notin {"Polygon", "MultiPolygon"}
           THEN geo_result.raised /\ geo_result.shapes = <<>> /\ geo_result.areas = <<>>
           ELSE /\ ~ geo_result.raised
                /\ Len(geo_result.shapes) = Len(geo_file.rows)
                /\ Len(geo_result.areas) = Len(geo_result.shapes)
                /\ \A i \in DOMAIN geo_file.rows :
                       /\ geo_result.shapes[i] = geo_file.rows[i]
                       /\ geo_result.areas[i] * SquareMetersPerSquareKm
                              = geo_result.shapes[i].area_m2
    /\ geo_layer.enriched =>
           /\ Len(geo_layer.geoms) = Len(geo_layer.areas)
           /\ geo_layer.geoms = geo_result.shapes
           /\ geo_layer.areas = geo_result.areas

\* a layer enriched from a file of a Polygon and a MultiPolygon of different areas
C7_Witness ==
    /\ geo_layer.enriched
    /\ Len(geo_layer.geoms) = 2
    /\ geo_layer.geoms[1].type = "Polygon"
    /\ geo_layer.geoms[2].type = "MultiPolygon"
    /\ geo_layer.areas[1] # geo_layer.areas[2]

C9_EntryIffLoadableAndComplete ==
    (AllKindsRecognized /\ ~ Running) =>
        \A k \in Keys :
            LET dataset == DATASET_DEFINITIONS[k]
            IN  /\ k \in DOMAIN DATASETS <=> ~ HasMissingFile(dataset)
                /\ k \in DOMAIN DATASETS =>
                       /\ DATASETS[k].data_loader
                              = data_loader(dataset, DATASETS[k].shape_layers)
                       /\ \A i \in DOMAIN LayersOf(dataset) :
                              /\ LayersOf(dataset)[i].name \in DOMAIN DATASETS[k].shape_layers
                              /\ DATASETS[k].shape_layers[LayersOf(dataset)[i].name]
                                     = LayersOf(dataset)[i]
                              /\ LayersOf(dataset)[i].enriched
                       /\ DATASETS[k].javascript_string
                              = get_javascript_string_from_dataset(dataset)

\* C10: the registry does not depend on the processing order: when the
\* module's execution has ended on a table of recognized kinds, DATASETS is the
\* registry the same table yields when processed in the reverse order.
C10_OrderIndependent ==
    (AllKindsRecognized /\ ~ Running) =>
        DATASETS = Build([defs |-> Declared(DATASET_DEFINITIONS), registry |-> <<>>,
                          out |-> <<>>, error |-> NoError],
                         Reverse(order), 1).registry

====
